---- MODULE Spec2Model ----
(***************************************************************************)
(* A model of the Siamese-RPN training loss (src/module/loss_module.py)    *)
(* and of the layer-chaining state of the network builder                  *)
(* (src/net/network.py).                                                   *)
(*                                                                         *)
(* Tensors are records [ok, shape, data]: data is the row-major flattening *)
(* of the tensor, as TensorFlow stores it.  Real numbers are fixed point:  *)
(*   - box coordinates, targets and residuals are integers in units of     *)
(*     1/Scale;                                                            *)
(*   - smoothed-L1 values are integers in units of 1/(2*Scale^2), so that  *)
(*     0.5*d*d is k*k and |d| - 0.5 is 2*Scale*|k| - Scale^2 for d=k/Scale;*)
(*   - logits are integers; a cross-entropy is in units of 1/1000;         *)
(*   - a mean is the pair [num, den], den = 0 being the mean of nothing    *)
(*     (NaN in TensorFlow).                                                *)
(***************************************************************************)
EXTENDS Integers, Sequences, FiniteSets, TLC

VARIABLES
    gt,          \* loss(): the ground truth, one box per batch element
    anchors,     \* Loss_op.anchors: the anchor boxes
    pre_score,   \* loss(): the score tensor of the network
    pre_box,     \* loss(): the box tensor of the network
    matcher,     \* what anchor_tf.pos_neg_anchor2 returns for (gt, anchors)
    device,      \* where the graph runs: "cpu" or "gpu"
    pc,          \* "start" before the call of loss(), "done" after it
    status,      \* "none", "ok" when loss() returned its four tensors, "error"
                 \* when it raised while it built them
    cls_loss,    \* the value of the returned classification loss, a mean
                 \* [num, den]; NoMean when its evaluation raises
    reg_loss,    \* the value of the returned regression loss
    label,       \* the value of the returned label tensor
    target_box,  \* the value of the returned target tensor
    terminals,   \* Network.terminals: the current list of terminal nodes
    layers,      \* Network.layers: the mapping from layer names to layers
    made,        \* the number of tensors created so far
    graph,       \* the TensorFlow graph: the shape of each tensor a layer
                 \* operation returned, and the names of its variables
    calls,       \* the number of calls of layer operations and of make_var
    last         \* the last call on the network: what it got and how it ended

lossVars == <<gt, anchors, pre_score, pre_box, matcher, device, pc, status,
              cls_loss, reg_loss, label, target_box>>

netVars == <<terminals, layers, made, graph, calls, last>>

vars == <<lossVars, netVars>>

-----------------------------------------------------------------------------
(* Bounds of the model and constants of the program.                       *)

MaxPos == 2
MaxLogit == 1
MaxVal == 2
Scale == 2
BoxDim == 4
NumClasses == 2
RegScale == 10
IgnoreLabel == -1

-----------------------------------------------------------------------------
(* Tensors.                                                                *)

RECURSIVE Prod(_)
Prod(s) == IF Len(s) = 0 THEN 1 ELSE Head(s) * Prod(Tail(s))

RECURSIVE SumSeq(_)
SumSeq(s) == IF Len(s) = 0 THEN 0 ELSE Head(s) + SumSeq(Tail(s))

Abs(x) == IF x < 0 THEN -x ELSE x

\* A tensor; its data is stored as a tuple (d \o <<>> is d, fully evaluated).
Tensor(shape, data) == [ok |-> TRUE, shape |-> shape, data |-> data \o <<>>]

Failed == [ok |-> FALSE, shape |-> <<>>, data |-> <<>>]

Fill(shape, v) == Tensor(shape, [i \in 1..Prod(shape) |-> v])

\* tf.reshape(t, (b, -1, c)): the data is kept, the middle dimension is
\* inferred; an element count that b*c does not divide is an error.
tf_reshape(t, b, c) ==
    IF ~t.ok \/ b * c = 0 \/ Len(t.data) % (b * c) # 0
    THEN Failed
    ELSE Tensor(<<b, Len(t.data) \div (b * c), c>>, t.data)

\* Broadcasting of two shapes of the same rank: dimensions agree or one is 1.
BroadcastOk(s1, s2) ==
    /\ Len(s1) = Len(s2)
    /\ \A i \in 1..Len(s1) : s1[i] = s2[i] \/ s1[i] = 1 \/ s2[i] = 1

BroadcastShape(s1, s2) == [i \in 1..Len(s1) |-> IF s1[i] = 1 THEN s2[i] ELSE s1[i]]

\* The element of the rank-3 tensor t that the flat position i (1-based) of a
\* tensor of shape rs reads, t being broadcast to rs.
BroadcastGet(t, rs, i) ==
    LET b == (i - 1) \div (rs[2] * rs[3])
        a == ((i - 1) \div rs[3]) % rs[2]
        c == (i - 1) % rs[3]
        bb == IF t.shape[1] = 1 THEN 0 ELSE b
        aa == IF t.shape[2] = 1 THEN 0 ELSE a
        cc == IF t.shape[3] = 1 THEN 0 ELSE c
    IN  t.data[(bb * t.shape[2] + aa) * t.shape[3] + cc + 1]

\* The data of the rank-3 tensor t broadcast to the shape rs.
BroadcastTo(t, rs) ==
    IF t.shape = rs THEN t.data ELSE [i \in 1..Prod(rs) |-> BroadcastGet(t, rs, i)]

Compatible(t1, t2) == t1.ok /\ t2.ok /\ BroadcastOk(t1.shape, t2.shape)

\* The elementwise operations of TensorFlow, with broadcasting; shapes that
\* do not broadcast are an error.
tf_subtract(t1, t2) ==
    IF ~Compatible(t1, t2) THEN Failed
    ELSE LET rs == BroadcastShape(t1.shape, t2.shape)
             x == BroadcastTo(t1, rs)
             y == BroadcastTo(t2, rs)
         IN  Tensor(rs, [i \in 1..Len(x) |-> x[i] - y[i]])

tf_add(t1, t2) ==
    IF ~Compatible(t1, t2) THEN Failed
    ELSE LET rs == BroadcastShape(t1.shape, t2.shape)
             x == BroadcastTo(t1, rs)
             y == BroadcastTo(t2, rs)
         IN  Tensor(rs, [i \in 1..Len(x) |-> x[i] + y[i]])

tf_multiply(t1, t2) ==
    IF ~Compatible(t1, t2) THEN Failed
    ELSE LET rs == BroadcastShape(t1.shape, t2.shape)
             x == BroadcastTo(t1, rs)
             y == BroadcastTo(t2, rs)
         IN  Tensor(rs, [i \in 1..Len(x) |-> x[i] * y[i]])

tf_abs(t) ==
    IF ~t.ok THEN Failed
    ELSE Tensor(t.shape, [i \in 1..Len(t.data) |-> Abs(t.data[i])])

tf_reduce_sum(t) == SumSeq(t.data)

\* tf.where(tf.not_equal(t, v)): the coordinates <<b, a>> (0-based) of the
\* elements of the rank-2 tensor t that differ from v, in row-major order.
tf_where_not_equal(t, v) ==
    LET pos == SelectSeq([i \in 1..Len(t.data) |-> i], LAMBDA i : t.data[i] # v)
    IN  [k \in 1..Len(pos) |-> <<(pos[k] - 1) \div t.shape[2], (pos[k] - 1) % t.shape[2]>>]

InRange(t, ix) == ix[1] < t.shape[1] /\ ix[2] < t.shape[2]

\* tf.gather_nd(t, ix) for a rank-3 tensor t and coordinates <<b, a>>: the
\* rows t[b, a, :].  A coordinate outside t is an error on the CPU and reads
\* as a row of zeros on the GPU.
tf_gather_nd_rows(t, ix, dev) ==
    IF ~t.ok \/ (dev = "cpu" /\ \E k \in 1..Len(ix) : ~InRange(t, ix[k]))
    THEN [ok |-> FALSE, rows |-> <<>>]
    ELSE [ok |-> TRUE,
          rows |-> [k \in 1..Len(ix) |->
                      [c \in 1..t.shape[3] |->
                          IF InRange(t, ix[k])
                          THEN t.data[(ix[k][1] * t.shape[2] + ix[k][2]) * t.shape[3] + c]
                          ELSE 0]]]

\* tf.gather_nd(t, ix) for a rank-2 tensor t: the scalars t[b, a].
tf_gather_nd_scalars(t, ix) == [k \in 1..Len(ix) |-> t.data[ix[k][1] * t.shape[2] + ix[k][2] + 1]]

\* log(1 + exp(x)) in units of 1/1000, for an integer x.
Softplus(x) ==
    CASE x = 0  -> 693
      [] x = 1  -> 1313
      [] x = -1 -> 313
      [] x = 2  -> 2127
      [] x = -2 -> 127
      [] x = 3  -> 3049
      [] x = -3 -> 49
      [] x = 4  -> 4018
      [] x = -4 -> 18
      [] x > 4  -> 1000 * x + 7
      [] OTHER  -> 7

\* tf.nn.sparse_softmax_cross_entropy_with_logits for two classes: for each
\* row, log(exp(s0) + exp(s1)) - s_label.
sparse_softmax_cross_entropy_with_logits(logits, labels) ==
    [k \in 1..Len(logits) |-> Softplus(logits[k][2 - labels[k]] - logits[k][labels[k] + 1])]

\* tf.reduce_mean of a vector.
tf_reduce_mean(v) == [num |-> SumSeq(v), den |-> Len(v)]

NoMean == [num |-> 0, den |-> -1]

-----------------------------------------------------------------------------
(* Loss_op.loss.                                                           *)

batch_size(g) == Len(g)

\* The classification loss with the ignored positions kept in the mean's
\* denominator (weighted zero, not excluded).
ClsLossZeroWeighted(score, lab, b, dev) ==
    LET score3 == tf_reshape(score, b, NumClasses)
        pre_score_keep == tf_where_not_equal(lab, IgnoreLabel)
        pre_score_gather == tf_gather_nd_rows(score3, pre_score_keep, dev)
        label_valid == tf_gather_nd_scalars(lab, pre_score_keep)
    IN  IF ~pre_score_gather.ok
        THEN [ok |-> FALSE, value |-> NoMean]
        ELSE [ok |-> TRUE,
              value |-> [num |-> SumSeq(sparse_softmax_cross_entropy_with_logits(
                                            pre_score_gather.rows, label_valid)),
                         den |-> Len(lab.data)]]

\* The classification loss of lines 19-25, for the labels lab.
ClsLoss(score, lab, b, dev) ==
    LET score3 == tf_reshape(score, b, NumClasses)
        pre_score_keep == tf_where_not_equal(lab, IgnoreLabel)
        pre_score_gather == tf_gather_nd_rows(score3, pre_score_keep, dev)
        pre_score_valid == pre_score_gather.rows
        label_valid == tf_gather_nd_scalars(lab, pre_score_keep)
    IN  IF ~pre_score_gather.ok
        THEN [ok |-> FALSE, value |-> NoMean]
        ELSE [ok |-> TRUE,
              value |-> tf_reduce_mean(
                  sparse_softmax_cross_entropy_with_logits(pre_score_valid, label_valid))]

\* mask of line 29: 1 where |inside| < 1, else 0.
Mask(inside) ==
    IF ~inside.ok THEN Failed
    ELSE Tensor(inside.shape,
                [i \in 1..Len(inside.data) |-> IF Abs(inside.data[i]) < Scale THEN 1 ELSE 0])

\* option1 of line 30: 0.5 * inside * inside.
Option1(inside) ==
    IF ~inside.ok THEN Failed
    ELSE Tensor(inside.shape,
                [i \in 1..Len(inside.data) |-> inside.data[i] * inside.data[i]])

\* option2 with the offset 1 in place of 0.5.
Option2Shifted(inside) ==
    IF ~inside.ok THEN Failed
    ELSE Tensor(inside.shape,
                [i \in 1..Len(inside.data) |->
                    2 * Scale * Abs(inside.data[i]) - 2 * Scale * Scale])

\* option2 of line 31: |inside| - 0.5.
Option2(inside) ==
    IF ~inside.ok THEN Failed
    ELSE Tensor(inside.shape,
                [i \in 1..Len(inside.data) |->
                    2 * Scale * Abs(inside.data[i]) - Scale * Scale])

\* 1 - mask of line 33.
OneMinus(mask) ==
    IF ~mask.ok THEN Failed
    ELSE Tensor(mask.shape, [i \in 1..Len(mask.data) |-> 1 - mask.data[i]])

\* inside without the inside weight.
InsideUnweighted(box, m, b) == tf_subtract(tf_reshape(box, b, BoxDim), m.target_box)

\* inside of line 28.
Inside(box, m, b) ==
    tf_multiply(m.target_inside_weight, tf_subtract(tf_reshape(box, b, BoxDim), m.target_box))

\* The transform with option2 added at every element, not only where the
\* mask is 0.
TransformUnmasked(inside) ==
    tf_add(tf_multiply(Option1(inside), Mask(inside)), Option2(inside))

\* smooth_l1 of line 33, before the outside weight.
Transform(inside) ==
    LET mask == Mask(inside)
    IN  tf_add(tf_multiply(Option1(inside), mask),
               tf_multiply(Option2(inside), OneMinus(mask)))

\* smooth_l1 with the outside weight applied twice.
SmoothL1WeightedTwice(inside, outside) ==
    tf_multiply(tf_multiply(Transform(inside), outside), outside)

\* smooth_l1 of line 33.
SmoothL1(inside, outside) == tf_multiply(Transform(inside), outside)

\* The regression loss of lines 27-34.
RegLoss(box, m, b) ==
    LET smooth_l1 == SmoothL1(Inside(box, m, b), m.target_outside_weight)
    IN  IF ~smooth_l1.ok
        THEN [ok |-> FALSE, value |-> 0]
        ELSE [ok |-> TRUE, value |-> tf_reduce_sum(smooth_l1) * RegScale]

\* loss(gt, pre_score, pre_box), the anchor matcher returning matcher, and
\* the evaluation of each tensor it returns.  The shapes are static: a
\* reshape that does not divide and operands that do not broadcast raise
\* while loss() builds the graph, and it returns nothing.  The indices of
\* gather_nd are known only when the graph runs: out of range on the CPU,
\* the evaluation of cls_loss raises, and that of the other three does not.
Loss ==
    /\ pc = "start"
    /\ LET b == batch_size(gt)
           cls == ClsLoss(pre_score, matcher.label, b, device)
           reg == RegLoss(pre_box, matcher, b)
           built == tf_reshape(pre_score, b, NumClasses).ok /\ reg.ok
       IN  /\ status' = IF built THEN "ok" ELSE "error"
           /\ cls_loss' = IF built /\ cls.ok THEN cls.value ELSE NoMean
           /\ reg_loss' = IF built THEN reg.value ELSE 0
           /\ label' = IF built THEN matcher.label ELSE Failed
           /\ target_box' = IF built THEN matcher.target_box ELSE Failed
    /\ pc' = "done"
    /\ UNCHANGED <<gt, anchors, pre_score, pre_box, matcher, device>>
    /\ UNCHANGED netVars

-----------------------------------------------------------------------------
(* The inputs of loss(), up to MaxPos (batch, anchor) positions:           *)
(*   InitCls    every score row with every label;                          *)
(*   InitReg    every predicted row with every inside weight, under each   *)
(*              target and outside weight;                                 *)
(*   InitShape  every shape of the score and box tensors against every     *)
(*              batch size and number of anchors, on each device.          *)

Shapes == {s \in (1..MaxPos) \X (1..MaxPos) : s[1] * s[2] <= MaxPos}

UnitBox == <<0, 0, 1, 1>>

Labels == {IgnoreLabel, 0, 1}

Logits == 0..MaxLogit

Vals == (-MaxVal)..MaxVal

TargetVals == {0, 1}

InsideVals == {0, 1}

OutsideVals == {1, 2}

TensorsOf(shape, S) == {Tensor(shape, d) : d \in [1..Prod(shape) -> S]}

\* The tensor of shape <<b, a, c>> whose row at position p is rows[p].
FromRows(b, a, c, rows) ==
    Tensor(<<b, a, c>>,
           [i \in 1..(b * a * c) |-> rows[((i - 1) \div c) + 1][((i - 1) % c) + 1]])

ScoreRow(u) == <<IF u > 0 THEN u ELSE 0, IF u < 0 THEN -u ELSE 0>>

PredRow(u) == <<u, -u, MaxVal, 0>>

ConstRow(v) == <<v, v, v, v>>

Returned(lab, tb, iw, ow) ==
    [label |-> lab, target_box |-> tb, target_inside_weight |-> iw,
     target_outside_weight |-> ow]

\* No network is under construction.
NoNetwork ==
    /\ terminals = <<>>
    /\ layers = <<>>
    /\ made = 0
    /\ graph = [shape |-> <<>>, variables |-> {}]
    /\ calls = 0
    /\ last = [call |-> "none"]

NotCalled ==
    /\ NoNetwork
    /\ pc = "start"
    /\ status = "none"
    /\ cls_loss = NoMean
    /\ reg_loss = 0
    /\ label = Failed
    /\ target_box = Failed

InitCls ==
    \E s \in Shapes, ss \in Shapes :
        /\ ss[1] * ss[2] = s[1] * s[2]
        /\ gt = [i \in 1..s[1] |-> UnitBox]
        /\ anchors = [i \in 1..s[2] |-> UnitBox]
        /\ \E u \in [1..(ss[1] * ss[2]) -> (-MaxLogit)..MaxLogit] :
              pre_score = FromRows(ss[1], ss[2], NumClasses,
                                   [p \in 1..(ss[1] * ss[2]) |-> ScoreRow(u[p])])
        /\ pre_box = Fill(<<s[1], s[2], BoxDim>>, 0)
        /\ \E lab \in TensorsOf(s, Labels) :
              matcher = Returned(lab, Fill(<<s[1], s[2], BoxDim>>, 0),
                                 Fill(<<s[1], s[2], BoxDim>>, 0),
                                 Fill(<<s[1], s[2], BoxDim>>, 1))
        /\ device = "cpu"

InitReg ==
    \E s \in Shapes :
        /\ gt = [i \in 1..s[1] |-> UnitBox]
        /\ anchors = [i \in 1..s[2] |-> UnitBox]
        /\ pre_score = Fill(<<s[1], s[2], NumClasses>>, 0)
        /\ \E u \in [1..(s[1] * s[2]) -> Vals] :
              pre_box = FromRows(s[1], s[2], BoxDim,
                                 [p \in 1..(s[1] * s[2]) |-> PredRow(u[p])])
        /\ \E w \in [1..(s[1] * s[2]) -> InsideVals], t \in TargetVals, o \in OutsideVals :
              matcher = Returned(Fill(s, 1),
                                 Fill(<<s[1], s[2], BoxDim>>, t),
                                 FromRows(s[1], s[2], BoxDim,
                                          [p \in 1..(s[1] * s[2]) |-> ConstRow(w[p])]),
                                 Fill(<<s[1], s[2], BoxDim>>, o))
        /\ device = "cpu"

InitShape ==
    \E s \in Shapes, ss \in Shapes, bs \in Shapes :
        /\ gt = [i \in 1..s[1] |-> UnitBox]
        /\ anchors = [i \in 1..s[2] |-> UnitBox]
        /\ pre_score = FromRows(ss[1], ss[2], NumClasses,
                                [p \in 1..(ss[1] * ss[2]) |-> ScoreRow(MaxLogit)])
        /\ pre_box = FromRows(bs[1], bs[2], BoxDim,
                              [p \in 1..(bs[1] * bs[2]) |-> PredRow(MaxVal)])
        /\ \E l \in {0, 1} :
              matcher = Returned(Fill(s, l), Fill(<<s[1], s[2], BoxDim>>, 0),
                                 Fill(<<s[1], s[2], BoxDim>>, 1),
                                 Fill(<<s[1], s[2], BoxDim>>, 1))
        /\ device \in {"cpu", "gpu"}

Init == NotCalled /\ (InitShape \/ InitCls \/ InitReg)

Next == Loss

Spec == Init /\ [][Next]_vars

-----------------------------------------------------------------------------
(* Properties of Loss_op.loss.                                             *)

NumBatch == Len(gt)

NumAnchors == Len(anchors)

Returns == pc = "done" /\ status = "ok"

ScoreFits == Len(pre_score.data) = NumBatch * NumAnchors * NumClasses

BoxFits == Len(pre_box.data) = NumBatch * NumAnchors * BoxDim

RECURSIVE SumOver(_, _)
SumOver(S, f) ==
    IF S = {} THEN 0
    ELSE LET x == CHOOSE y \in S : TRUE IN f[x] + SumOver(S \ {x}, f)

\* The (batch, anchor) positions, numbered in row-major order, and those the
\* matcher did not label ignore.
Positions == 1..(NumBatch * NumAnchors)

ValidPositions == {p \in Positions : matcher.label.data[p] # IgnoreLabel}

\* The two-class cross-entropy of position p for the score data d.
CrossEntropyAt(d, p) ==
    LET s0 == d[NumClasses * (p - 1) + 1]
        s1 == d[NumClasses * (p - 1) + 2]
    IN  IF matcher.label.data[p] = 1 THEN Softplus(s0 - s1) ELSE Softplus(s1 - s0)

\* The score tensor with the logit at flat position i replaced by v.
ScoreWith(i, v) == Tensor(pre_score.shape, [pre_score.data EXCEPT ![i] = v])

\* C1: when loss() returns for a score tensor of batch*anchors*2 elements,
\* the classification loss is the sum of the cross-entropies of the positions
\* whose label is not -1 divided by the number of those positions, and
\* replacing a logit of a position labelled -1 leaves it unchanged.
C1_ClsLossIsMeanOverValid ==
    (Returns /\ ScoreFits) =>
        /\ cls_loss.den = Cardinality(ValidPositions)
        /\ cls_loss.num = SumOver(ValidPositions,
                                  [p \in Positions |-> CrossEntropyAt(pre_score.data, p)])
        /\ \A p \in Positions \ ValidPositions : \A c \in 1..NumClasses : \A v \in Logits :
              ClsLoss(ScoreWith(NumClasses * (p - 1) + c, v), matcher.label,
                      batch_size(gt), device).value = cls_loss

\* A call that returned with an ignored position whose logits differ and a
\* valid position beside it.
C1_Witness ==
    /\ Returns /\ ScoreFits
    /\ \E p \in Positions \ ValidPositions :
          pre_score.data[NumClasses * (p - 1) + 1] # pre_score.data[NumClasses * (p - 1) + 2]
    /\ ValidPositions # {}
    /\ cls_loss.num > 0

\* The residual, weights and smoothed-L1 value of each element, read from the
\* inputs of the call.
Elements == 1..(NumBatch * NumAnchors * BoxDim)

ResidualAt(i) ==
    matcher.target_inside_weight.data[i] * (pre_box.data[i] - matcher.target_box.data[i])

SmoothedL1(k) == IF Abs(k) < Scale THEN k * k ELSE 2 * Scale * Abs(k) - Scale * Scale

InsideNow == Inside(pre_box, matcher, batch_size(gt))

\* C2: when loss() returns for a box tensor of batch*anchors*4 elements, the
\* regression loss is 10 times the sum over all elements of
\* outside_weight * f(d), d = inside_weight * (predicted - target),
\* f(d) = 0.5*d*d when |d| < 1 and |d| - 0.5 otherwise, and each element's
\* transform is the value of exactly the branch its |d| selects.
C2_RegLossIsWeightedSmoothL1 ==
    (Returns /\ BoxFits) =>
        LET d == InsideNow.data
            quadratic == Option1(InsideNow).data
            linear == Option2(InsideNow).data
            mask == Mask(InsideNow).data
            f == Transform(InsideNow).data
        IN  /\ reg_loss = RegScale * SumOver(Elements,
                   [i \in Elements |->
                       matcher.target_outside_weight.data[i] * SmoothedL1(ResidualAt(i))])
            /\ \A i \in Elements :
                  /\ d[i] = ResidualAt(i)
                  /\ f[i] = IF mask[i] = 1 THEN quadratic[i] ELSE linear[i]
                  /\ mask[i] = 1 <=> Abs(ResidualAt(i)) < Scale

\* A call that returned with a non-zero residual below 1 and one above 1.
C2_Witness ==
    /\ Returns /\ BoxFits
    /\ \E i \in Elements : ResidualAt(i) # 0 /\ Abs(ResidualAt(i)) < Scale
    /\ \E i \in Elements : Abs(ResidualAt(i)) > Scale
    /\ reg_loss > 0

\* C3: a call whose score or box tensor has another batch size than the
\* ground truth fails and returns no loss; stated for the case the reshape
\* could absorb, the tensor having as many elements as the expected shape.
C3_OtherBatchSizeFails ==
    (/\ pc = "done"
     /\ pre_score.shape[1] # NumBatch \/ pre_box.shape[1] # NumBatch
     /\ ScoreFits /\ BoxFits)
        => status = "error"

\* The box tensor with every element of inside weight 0 replaced by v.
BoxWith(v) ==
    Tensor(pre_box.shape,
           [i \in 1..Len(pre_box.data) |->
               IF matcher.target_inside_weight.data[i] = 0 THEN v ELSE pre_box.data[i]])

\* C6: when loss() returns, an element whose inside weight is 0 adds 0 to the
\* regression loss, and the call with other predicted values at the elements
\* of inside weight 0 returns the same regression loss.
C6_ZeroInsideWeightContributesNothing ==
    (Returns /\ BoxFits) =>
        LET smooth_l1 == SmoothL1(InsideNow, matcher.target_outside_weight).data
        IN  /\ \A i \in Elements :
                  matcher.target_inside_weight.data[i] = 0 => smooth_l1[i] = 0
            /\ \A v \in Vals :
                  RegLoss(BoxWith(v), matcher, batch_size(gt)).value = reg_loss

\* A call that returned with an element of inside weight 0 whose prediction
\* is away from its target by more than 1, beside an element that counts.
C6_Witness ==
    /\ Returns /\ BoxFits
    /\ \E i \in Elements :
          /\ matcher.target_inside_weight.data[i] = 0
          /\ Abs(pre_box.data[i] - matcher.target_box.data[i]) > Scale
          /\ matcher.target_outside_weight.data[i] > 0
    /\ reg_loss > 0

\* The tensor t with every anchor of every batch element listed twice.
Doubled(t) ==
    LET a == t.shape[2]
        c == t.shape[3]
    IN  Tensor(<<t.shape[1], 2 * a, c>>,
               [i \in 1..(2 * Len(t.data)) |->
                   t.data[(((i - 1) \div (2 * a * c)) * a + (((i - 1) \div c) % a)) * c
                          + ((i - 1) % c) + 1]])

Halved(t) == Tensor(t.shape, [i \in 1..Len(t.data) |-> t.data[i] \div 2])

AllEven(t) == \A i \in 1..Len(t.data) : t.data[i] % 2 = 0

\* C7: when loss() returns, the same call with every anchor of the box,
\* target and weight tensors, and so every foreground anchor, listed twice
\* and the outside weight halved returns the same regression loss.
C7_DoubledAnchorsHalvedWeight ==
    (Returns /\ BoxFits /\ AllEven(matcher.target_outside_weight)) =>
        RegLoss(Doubled(tf_reshape(pre_box, batch_size(gt), BoxDim)),
                Returned(matcher.label,
                         Doubled(matcher.target_box),
                         Doubled(matcher.target_inside_weight),
                         Halved(Doubled(matcher.target_outside_weight))),
                batch_size(gt)).value = reg_loss

\* A call that returned a non-zero regression loss under an even weight.
C7_Witness ==
    /\ Returns /\ BoxFits /\ AllEven(matcher.target_outside_weight)
    /\ NumAnchors > 1
    /\ reg_loss > 0

\* C8: in the residuals of a call, an element with |d| = 1 has both branches
\* equal to 0.5, which is its transform; every transform is >= 0, and an
\* element with the larger |d| never has the smaller transform.
C8_ContinuousAndMonotone ==
    (Returns /\ BoxFits) =>
        LET d == InsideNow.data
            quadratic == Option1(InsideNow).data
            linear == Option2(InsideNow).data
            mask == Mask(InsideNow).data
            f == Transform(InsideNow).data
        IN  /\ \A i \in Elements :
                  Abs(d[i]) = Scale =>
                      /\ quadratic[i] = Scale * Scale
                      /\ linear[i] = Scale * Scale
                      /\ mask[i] = 0
                      /\ f[i] = Scale * Scale
            /\ \A i \in Elements : f[i] >= 0
            /\ \A i, j \in Elements : Abs(d[i]) <= Abs(d[j]) => f[i] <= f[j]

\* A call whose residuals are below, at and above the switch point.
C8_Witness ==
    /\ Returns /\ BoxFits
    /\ LET d == InsideNow.data
       IN  /\ \E i \in Elements : Abs(d[i]) = Scale
           /\ \E i \in Elements : Abs(d[i]) = Scale - 1
           /\ \E i \in Elements : Abs(d[i]) = Scale + 1

-----------------------------------------------------------------------------
(* The anchor generator and the anchor matcher (module.gen_ancor and       *)
(* module.anchor_tf, which loss() calls), after sections 4.1 and 4.2 of    *)
(* the specification.  Boxes are <<x_min, y_min, x_max, y_max>>.           *)

GridRows == 1
GridCols == 5
FgCap == 2
BatchBudget == 3
AnchorStride == 1
AnchorSize == 8
SmallSize == 2
PosThreshold == 7
NegThreshold == 3
ThresholdUnit == 10
WeightUnit == 12

\* generate(rows, cols): one anchor per cell, cells in row-major order.
Anchor(rows, cols) ==
    [k \in 1..(rows * cols) |->
        LET r == (k - 1) \div cols
            c == (k - 1) % cols
        IN  <<c * AnchorStride, r * AnchorStride,
              c * AnchorStride + AnchorSize, r * AnchorStride + AnchorSize>>]

Max(x, y) == IF x > y THEN x ELSE y

Min(x, y) == IF x < y THEN x ELSE y

Area(b) == (b[3] - b[1]) * (b[4] - b[2])

Intersection(a, g) ==
    Max(0, Min(a[3], g[3]) - Max(a[1], g[1])) * Max(0, Min(a[4], g[4]) - Max(a[2], g[2]))

\* IoU = intersection / (area_a + area_g - intersection), as a fraction.
IoU(a, g) == [num |-> Intersection(a, g), den |-> Area(a) + Area(g) - Intersection(a, g)]

Exceeds(q, t) == ThresholdUnit * q.num > t * q.den

Below(q, t) == ThresholdUnit * q.num < t * q.den

\* Anchor k has the maximum IoU with g among the anchors anc.
IsMaxIoU(anc, g, k) ==
    \A j \in 1..Len(anc) :
        IoU(anc[k], g).num * IoU(anc[j], g).den >= IoU(anc[j], g).num * IoU(anc[k], g).den

\* Steps 2 to 4: the label of anchor k before the subsampling.
ThresholdLabel(anc, g, k) ==
    IF Exceeds(IoU(anc[k], g), PosThreshold) \/ IsMaxIoU(anc, g, k) THEN 1
    ELSE IF Below(IoU(anc[k], g), NegThreshold) THEN 0
    ELSE IgnoreLabel

Candidates(anc, g, l) == {k \in 1..Len(anc) : ThresholdLabel(anc, g, k) = l}

\* A subsampling that keeps the whole pool.
SampleAll(pool, n) == {pool}

\* Step 5: the outcomes of drawing at most n of the pool uniformly at random.
Sample(pool, n) ==
    IF Cardinality(pool) <= n THEN {pool}
    ELSE {S \in SUBSET pool : Cardinality(S) = n}

\* Step 5: the final labels of one batch element, for each outcome.
SampledLabels(anc, g) ==
    {[k \in 1..Len(anc) |-> IF k \in fg THEN 1 ELSE IF k \in bg THEN 0 ELSE IgnoreLabel] :
        fg \in Sample(Candidates(anc, g, 1), FgCap),
        bg \in Sample(Candidates(anc, g, 0),
                      BatchBudget - Min(FgCap, Cardinality(Candidates(anc, g, 1))))}

\* log(g / a) in units of 1/1000, for the size ratios of the model.
LogRatio(g, a) ==
    CASE g = a     -> 0
      [] 4 * g = a -> -1386
      [] g = 4 * a -> 1386
      [] OTHER     -> 0

\* x / y rounded towards zero.
Quot(x, y) == IF x < 0 THEN -((-x) \div y) ELSE x \div y

\* Step 6: the regression target of anchor a for g, in units of 1/Scale: the
\* centre offsets over the anchor's size and the logarithms of the size ratios.
Encode(a, g) ==
    <<Quot(((g[1] + g[3]) - (a[1] + a[3])) * Scale, 2 * (a[3] - a[1])),
      Quot(((g[2] + g[4]) - (a[2] + a[4])) * Scale, 2 * (a[4] - a[2])),
      Quot(LogRatio(g[3] - g[1], a[3] - a[1]) * Scale, 1000),
      Quot(LogRatio(g[4] - g[2], a[4] - a[2]) * Scale, 1000)>>

Count(row, l) == Cardinality({k \in 1..Len(row) : row[k] = l})

\* Steps 6 and 7 for the final labels rows[b] of each batch element: the
\* targets of the foreground anchors, inside weight 1 on them, and the
\* outside weight 1/num_foreground (in units of 1/WeightUnit) everywhere.
Encoded(g, anc, rows) ==
    LET nb == Len(g)
        na == Len(anc)
        fg == SumSeq([b \in 1..nb |-> Count(rows[b], 1)])
        at(p) == <<((p - 1) \div na) + 1, ((p - 1) % na) + 1>>
    IN  Returned(
            Tensor(<<nb, na>>, [p \in 1..(nb * na) |-> rows[at(p)[1]][at(p)[2]]]),
            FromRows(nb, na, BoxDim,
                     [p \in 1..(nb * na) |->
                         IF rows[at(p)[1]][at(p)[2]] = 1
                         THEN Encode(anc[at(p)[2]], g[at(p)[1]])
                         ELSE ConstRow(0)]),
            FromRows(nb, na, BoxDim,
                     [p \in 1..(nb * na) |->
                         IF rows[at(p)[1]][at(p)[2]] = 1 THEN ConstRow(1) ELSE ConstRow(0)]),
            Fill(<<nb, na, BoxDim>>, WeightUnit \div Max(fg, 1)))

\* The final labels of every batch element, for each outcome.
RECURSIVE BatchLabels(_, _)
BatchLabels(g, anc) ==
    IF Len(g) = 0 THEN {<<>>}
    ELSE {<<h>> \o t : h \in SampledLabels(anc, Head(g)), t \in BatchLabels(Tail(g), anc)}

\* assign(ground_truth_boxes, anchors): what the matcher may return.
pos_neg_anchor2(g, anc) == {Encoded(g, anc, rows) : rows \in BatchLabels(g, anc)}

\* The ground-truth boxes: a box of size z at a cell of the grid.
GtBoxes(z) ==
    {<<c * AnchorStride, r * AnchorStride, c * AnchorStride + z, r * AnchorStride + z>> :
        r \in 0..(GridRows - 1), c \in 0..(GridCols - 1)}

\* A batch is a large or a small box, or a large box and then a small one.
InitMatch ==
    /\ NotCalled
    /\ anchors = Anchor(GridRows, GridCols)
    /\ \/ \E g \in GtBoxes(AnchorSize) \cup GtBoxes(SmallSize) : gt = <<g>>
       \/ \E g \in GtBoxes(AnchorSize) : gt = <<g, <<0, 0, SmallSize, SmallSize>>>>
    /\ matcher \in pos_neg_anchor2(gt, anchors)
    /\ pre_score = FromRows(Len(gt), Len(anchors), NumClasses,
                            [p \in 1..(Len(gt) * Len(anchors)) |-> ScoreRow(MaxLogit)])
    /\ pre_box = Fill(<<Len(gt), Len(anchors), BoxDim>>, 0)
    /\ device = "cpu"

SpecMatch == InitMatch /\ [][Next]_vars

-----------------------------------------------------------------------------
(* Properties of the labels loss() returns.                                *)

LabelAt(b, k) == label.data[(b - 1) * NumAnchors + k]

Selected(b, l) == {k \in 1..NumAnchors : LabelAt(b, k) = l}

\* C4: in the labels loss() returns, after the thresholds and after the
\* subsampling, every anchor with the maximum IoU of its batch element is
\* foreground, whatever that IoU; so every batch element has a foreground
\* anchor and the classification loss averages at least one position.
C4_MaxIoUAnchorIsForeground ==
    Returns =>
        /\ \A b \in 1..NumBatch : \A k \in 1..NumAnchors :
              IsMaxIoU(anchors, gt[b], k) => LabelAt(b, k) = 1
        /\ \A b \in 1..NumBatch : Selected(b, 1) # {}
        /\ ValidPositions # {}

\* C5: in the labels loss() returns, every batch element has at most FgCap
\* foreground anchors and at most BatchBudget foreground and background
\* anchors together, and an anchor keeps the label of the thresholds or is
\* ignored.
C5_SamplingCaps ==
    Returns =>
        \A b \in 1..NumBatch :
            /\ Cardinality(Selected(b, 1)) <= FgCap
            /\ Cardinality(Selected(b, 1)) + Cardinality(Selected(b, 0)) <= BatchBudget
            /\ \A k \in 1..NumAnchors :
                  LabelAt(b, k) \in {IgnoreLabel, ThresholdLabel(anchors, gt[b], k)}

\* A call that returned after the foreground anchors of one batch element
\* and the background anchors of another were subsampled.
C5_Witness ==
    /\ Returns
    /\ \E b \in 1..NumBatch :
          /\ Cardinality(Candidates(anchors, gt[b], 1)) > FgCap
          /\ Cardinality(Selected(b, 1)) = FgCap
    /\ \E b \in 1..NumBatch :
          /\ Cardinality(Candidates(anchors, gt[b], 0)) > Cardinality(Selected(b, 0))
          /\ Cardinality(Selected(b, 1)) + Cardinality(Selected(b, 0)) = BatchBudget

-----------------------------------------------------------------------------
(* The chaining state of Network (src/net/network.py).  A name is the      *)
(* tuple of its characters.  A layer is a tensor, known by the number it   *)
(* was created with, or a Python list of layers.                           *)

\* The number of calls of layer operations and of make_var.
MaxLayerOps == 2

RELU == <<"r", "e", "l", "u">>

CONV == <<"c", "o", "n", "v">>

CONV1 == <<"c", "o", "n", "v", "1">>

CONV2 == <<"c", "o", "n", "v", "2">>

CONV_3 == <<"c", "o", "n", "v", "_", "3">>

MAX_POOL2 == <<"m", "a", "x", "_", "p", "o", "o", "l", "2">>

MAX_POOL == <<"m", "a", "x", "_", "p", "o", "o", "l">>

AVG_POOL == <<"a", "v", "g", "_", "p", "o", "o", "l">>

LRN2 == <<"l", "r", "n", "2">>

LRN == <<"l", "r", "n">>

CONCAT == <<"c", "o", "n", "c", "a", "t">>

ADD == <<"a", "d", "d">>

FC == <<"f", "c">>

SOFTMAX == <<"s", "o", "f", "t", "m", "a", "x">>

BATCH_NORMALIZATION ==
    <<"b", "a", "t", "c", "h", "_", "n", "o", "r", "m", "a", "l", "i", "z", "a", "t", "i", "o", "n">>

DROPOUT == <<"d", "r", "o", "p", "o", "u", "t">>

CF_CONV == <<"c", "f", "_", "c", "o", "n", "v">>

RESHAPE == <<"r", "e", "s", "h", "a", "p", "e">>

RESHAPE2 == <<"r", "e", "s", "h", "a", "p", "e", "2">>

TEMPLATE == <<"t">>

DETECTION == <<"d">>

MISSING == <<"x">>

\* The methods decorated with @layer, by op.__name__.
Ops == {RELU, CONV, CONV1, CONV2, CONV_3, MAX_POOL2, MAX_POOL, AVG_POOL, LRN2, LRN,
        CONCAT, ADD, FC, SOFTMAX, BATCH_NORMALIZATION, DROPOUT, CF_CONV, RESHAPE,
        RESHAPE2}

\* The name a caller passes as name=... to relu and conv: 'relu_2'.
ExplicitNames == {RELU \o <<"_", "2">>}

\* The paddings passed: all three to conv, the default and 'FULL' to the
\* other operations that take one.
Paddings == {"SAME", "VALID", "FULL"}

\* The arguments of the calls: k_h = k_w of the convolutions and the pools
\* (the strides are 1), c_o of the convolutions and num_out of fc; reshape2
\* is called with the shape (-1, ChannelsOut) and reshape with the rate 2.
KernelSize == 3

ChannelsOut == 8

\* The shapes (N, H, W, C) of the two inputs: the template and the larger
\* detection image.
TemplateShape == <<1, 3, 3, 3>>

DetectionShape == <<1, 5, 5, 3>>

Digit(d) ==
    CASE d = 0 -> "0" [] d = 1 -> "1" [] d = 2 -> "2" [] d = 3 -> "3" [] d = 4 -> "4"
      [] d = 5 -> "5" [] d = 6 -> "6" [] d = 7 -> "7" [] d = 8 -> "8" [] d = 9 -> "9"

\* '%d' % n, for n >= 0.
RECURSIVE Decimal(_)
Decimal(n) == IF n < 10 THEN <<Digit(n)>> ELSE Decimal(n \div 10) \o <<Digit(n % 10)>>

\* t.startswith(prefix)
StartsWith(t, prefix) == Len(t) >= Len(prefix) /\ SubSeq(t, 1, Len(prefix)) = prefix

\* Network.get_unique_name
get_unique_name(lyrs, prefix) ==
    LET ident == Cardinality({t \in DOMAIN lyrs : StartsWith(t, prefix)}) + 1
    IN  prefix \o <<"_">> \o Decimal(ident)

\* Network.validate_padding: the assertion holds.
validate_padding(padding) == padding \in {"SAME", "VALID"}

\* A layer: the tensor created as the n-th, or a list of layers.
TensorOf(n) == [list |-> FALSE, id |-> n, items |-> <<>>]

ListOf(items) == [list |-> TRUE, id |-> 0, items |-> items]

NoLayer == TensorOf(0)

\* An argument of feed: a layer name (a str) or a layer.
NameArg(n) == [str |-> TRUE, name |-> n, layer |-> NoLayer]

LayerArg(x) == [str |-> FALSE, name |-> <<>>, layer |-> x]

Unknown(lyrs, arg) == arg.str /\ arg.name \notin DOMAIN lyrs

Resolved(lyrs, arg) == IF arg.str THEN lyrs[arg.name] ELSE arg.layer

\* feed that appends to the terminals it finds.
feed_appending(terms, lyrs, args) ==
    IF Len(args) = 0
    THEN [terminals |-> terms, result |-> "AssertionError"]
    ELSE LET bad == {i \in 1..Len(args) : Unknown(lyrs, args[i])}
             n == IF bad = {} THEN Len(args)
                  ELSE (CHOOSE i \in bad : \A j \in bad : i <= j) - 1
         IN  [terminals |-> terms \o [i \in 1..n |-> Resolved(lyrs, args[i])],
              result |-> IF bad = {} THEN "self" ELSE "KeyError"]

\* feed that puts the terminals back when a name is unknown.
feed_restoring(terms, lyrs, args) ==
    IF Len(args) = 0
    THEN [terminals |-> terms, result |-> "AssertionError"]
    ELSE LET bad == {i \in 1..Len(args) : Unknown(lyrs, args[i])}
         IN  [terminals |-> IF bad = {} THEN [i \in 1..Len(args) |-> Resolved(lyrs, args[i])]
                            ELSE terms,
              result |-> IF bad = {} THEN "self" ELSE "KeyError"]

\* Network.feed: the terminals it leaves and how it ends.
feed(terms, lyrs, args) ==
    IF Len(args) = 0
    THEN [terminals |-> terms, result |-> "AssertionError"]
    ELSE LET bad == {i \in 1..Len(args) : Unknown(lyrs, args[i])}
             n == IF bad = {} THEN Len(args)
                  ELSE (CHOOSE i \in bad : \A j \in bad : i <= j) - 1
         IN  [terminals |-> [i \in 1..n |-> Resolved(lyrs, args[i])],
              result |-> IF bad = {} THEN "self" ELSE "KeyError"]

\* Network.get_output
get_output == terminals[Len(terminals)]

\* layer_decorated, lines 14-19: the input of the operation, the single
\* terminal or the list of the terminals.
layer_input(terms) == IF Len(terms) = 1 THEN terms[1] ELSE ListOf(terms)

-----------------------------------------------------------------------------
(* The layer operations.  An operation sees the shapes of what it is       *)
(* given: a tensor of a shape, or a list.                                  *)

Shaped(s) == [list |-> FALSE, shape |-> s, items |-> <<>>]

\* The shapes of a layer in the graph g.
RECURSIVE ShapeOf(_, _)
ShapeOf(v, g) ==
    IF v.list
    THEN [list |-> TRUE, shape |-> <<>>,
          items |-> [i \in DOMAIN v.items |-> ShapeOf(v.items[i], g)]]
    ELSE Shaped(g.shape[v.id])

Converted(ok, shape) == [ok |-> ok, shape |-> shape]

\* tf.convert_to_tensor, which every TensorFlow operation applies to its
\* input: a list is packed into one tensor, which needs equal shapes.
RECURSIVE convert_to_tensor(_)
convert_to_tensor(x) ==
    IF ~x.list
    THEN Converted(TRUE, x.shape)
    ELSE LET parts == [i \in DOMAIN x.items |-> convert_to_tensor(x.items[i])]
         IN  IF \A i \in DOMAIN parts : parts[i].ok /\ parts[i].shape = parts[1].shape
             THEN Converted(TRUE, <<Len(parts)>> \o parts[1].shape)
             ELSE Converted(FALSE, <<>>)

\* x[i]: the item of a list, or the slice of a tensor, which is in the
\* graph from then on.
GetItem(x, i) ==
    IF x.list
    THEN IF i < Len(x.items)
         THEN [raised |-> "none", x |-> x.items[i + 1]]
         ELSE [raised |-> "IndexError", x |-> x]
    ELSE IF Len(x.shape) > 0 /\ i < x.shape[1]
         THEN [raised |-> "none", x |-> Shaped(Tail(x.shape))]
         ELSE [raised |-> "ValueError", x |-> x]

\* tf.nn.conv2d(input, filter, [1, 1, 1, 1], padding=padding)
tf_nn_conv2d(input, filter, padding) ==
    LET i == convert_to_tensor(input)
        f == convert_to_tensor(filter)
    IN  IF ~i.ok \/ ~f.ok \/ Len(i.shape) # 4 \/ Len(f.shape) # 4
             \/ padding \notin {"SAME", "VALID"}
        THEN Converted(FALSE, <<>>)
        ELSE IF i.shape[4] # f.shape[3]
        THEN Converted(FALSE, <<>>)
        ELSE IF padding = "SAME"
        THEN Converted(TRUE, <<i.shape[1], i.shape[2], i.shape[3], f.shape[4]>>)
        ELSE IF i.shape[2] < f.shape[1] \/ i.shape[3] < f.shape[2]
        THEN Converted(FALSE, <<>>)
        ELSE Converted(TRUE, <<i.shape[1], i.shape[2] - f.shape[1] + 1,
                               i.shape[3] - f.shape[2] + 1, f.shape[4]>>)

\* tf.nn.max_pool and tf.nn.avg_pool with ksize [1, k, k, 1], strides 1.
tf_nn_pool(input, k, padding) ==
    LET i == convert_to_tensor(input)
    IN  IF ~i.ok \/ Len(i.shape) # 4 \/ padding \notin {"SAME", "VALID"}
        THEN Converted(FALSE, <<>>)
        ELSE IF padding = "SAME"
        THEN i
        ELSE IF i.shape[2] < k \/ i.shape[3] < k
        THEN Converted(FALSE, <<>>)
        ELSE Converted(TRUE, <<i.shape[1], i.shape[2] - k + 1, i.shape[3] - k + 1,
                               i.shape[4]>>)

\* tf.nn.local_response_normalization: the input has rank 4.
tf_nn_lrn(input) ==
    LET i == convert_to_tensor(input)
    IN  IF i.ok /\ Len(i.shape) = 4 THEN i ELSE Converted(FALSE, <<>>)

\* The variable name+'_'+suffix stands for inside the scope name of a layer.
Suffixed(name, suffix) == name \o <<"/">> \o name \o <<"_">> \o suffix

\* What an operation gives: the exception it raises ("none" when it
\* returns), whether it returns a list, the shapes of the tensors it returns
\* (none when it raises), and the variables of the graph after it.
Outcome(raised, list, shapes, variables) ==
    [raised |-> raised, list |-> list, shapes |-> shapes, variables |-> variables]

\* Network.make_var under initial_weights = None: tf.get_variable of a name
\* that is no variable of the graph yet.
make_var(name, vs) ==
    IF name \in vs
    THEN [raised |-> "ValueError", variables |-> vs]
    ELSE [raised |-> "none", variables |-> vs \cup {name}]

\* make_var for each name in turn, up to the first that raises.
RECURSIVE make_vars(_, _)
make_vars(names, vs) ==
    IF Len(names) = 0
    THEN [raised |-> "none", variables |-> vs]
    ELSE LET v == make_var(Head(names), vs)
         IN  IF v.raised # "none" THEN v ELSE make_vars(Tail(names), v.variables)

\* The filter of the convolutions of an input x.
Kernel(x) == Shaped(<<KernelSize, KernelSize, x.shape[Len(x.shape)], ChannelsOut>>)

\* Network.relu
relu(x, vs) ==
    LET c == convert_to_tensor(x)
    IN  IF c.ok
        THEN Outcome("none", FALSE, <<c.shape>>, vs)
        ELSE Outcome("ValueError", FALSE, <<>>, vs)

\* Network.conv, lines 277-305: what follows the verification of the padding.
convolve(x, padding, name, vs) ==
    IF x.list THEN Outcome("AttributeError", FALSE, <<>>, vs)
    ELSE LET w == make_var(Suffixed(name, <<"W">>), vs)
             c == tf_nn_conv2d(x, Kernel(x), padding)
             b == make_var(Suffixed(name, <<"b">>), w.variables)
         IN  IF w.raised # "none" THEN Outcome(w.raised, FALSE, <<>>, vs)
             ELSE IF ~c.ok THEN Outcome("ValueError", FALSE, <<>>, w.variables)
             ELSE IF b.raised # "none" THEN Outcome(b.raised, FALSE, <<>>, w.variables)
             ELSE Outcome("none", FALSE, <<c.shape>>, b.variables)

\* Network.conv(3, 3, 8, 1, 1, name=..., padding=...)
conv(x, padding, name, vs) ==
    IF ~validate_padding(padding) THEN Outcome("AssertionError", FALSE, <<>>, vs)
    ELSE convolve(x, padding, name, vs)

\* Network.conv1(3, 3, 8, 1, 1, name=..., padding=...): input[0] comes first.
conv1(x, padding, name, vs) ==
    LET input == GetItem(x, 0)
    IN  IF input.raised # "none" THEN Outcome(input.raised, FALSE, <<>>, vs)
        ELSE IF ~validate_padding(padding) THEN Outcome("AssertionError", FALSE, <<>>, vs)
        ELSE convolve(input.x, padding, name, vs)

\* Network.conv2 and Network.conv_3 after their variables are made: the two
\* convolutions, then the biases.
convolve2(x, kernel, padding, name, vs) ==
    LET template == tf_nn_conv2d(GetItem(x, 0).x, kernel, padding)
        second == GetItem(x, 1)
        detection == tf_nn_conv2d(second.x, kernel, padding)
        b == make_var(Suffixed(name, <<"b">>), vs)
    IN  IF ~template.ok THEN Outcome("ValueError", FALSE, <<>>, vs)
        ELSE IF second.raised # "none" THEN Outcome(second.raised, FALSE, <<>>, vs)
        ELSE IF ~detection.ok THEN Outcome("ValueError", FALSE, <<>>, vs)
        ELSE IF b.raised # "none" THEN Outcome(b.raised, FALSE, <<>>, vs)
        ELSE Outcome("none", TRUE, <<template.shape, detection.shape>>, b.variables)

\* Network.conv2(3, 3, 8, 1, 1, name=..., padding=...)
conv2(x, padding, name, vs) ==
    LET first == GetItem(x, 0)
        w == make_var(Suffixed(name, <<"W">>), vs)
    IN  IF ~validate_padding(padding) THEN Outcome("AssertionError", FALSE, <<>>, vs)
        ELSE IF first.raised # "none" THEN Outcome(first.raised, FALSE, <<>>, vs)
        ELSE IF first.x.list THEN Outcome("AttributeError", FALSE, <<>>, vs)
        ELSE IF w.raised # "none" THEN Outcome(w.raised, FALSE, <<>>, vs)
        ELSE convolve2(x, Kernel(first.x), padding, name, w.variables)

\* Network.conv_3(3, 3, 8, 1, 1, name=..., padding=...)
conv_3(x, padding, name, vs) ==
    LET first == GetItem(x, 0)
        k == make_vars(<<Suffixed(name, <<"t">>), Suffixed(name, <<"d">>)>>, vs)
    IN  IF ~validate_padding(padding) THEN Outcome("AssertionError", FALSE, <<>>, vs)
        ELSE IF first.raised # "none" THEN Outcome(first.raised, FALSE, <<>>, vs)
        ELSE IF first.x.list THEN Outcome("AttributeError", FALSE, <<>>, vs)
        ELSE IF k.raised # "none" THEN Outcome(k.raised, FALSE, <<>>, k.variables)
        ELSE convolve2(x, Kernel(first.x), padding, name, k.variables)

\* Network.max_pool2(3, 3, 1, 1, name=..., padding=...)
max_pool2(x, padding, vs) ==
    LET first == GetItem(x, 0)
        second == GetItem(x, 1)
        template == tf_nn_pool(first.x, KernelSize, padding)
        detection == tf_nn_pool(second.x, KernelSize, padding)
    IN  IF ~validate_padding(padding) THEN Outcome("AssertionError", FALSE, <<>>, vs)
        ELSE IF first.raised # "none" THEN Outcome(first.raised, FALSE, <<>>, vs)
        ELSE IF ~template.ok THEN Outcome("ValueError", FALSE, <<>>, vs)
        ELSE IF second.raised # "none" THEN Outcome(second.raised, FALSE, <<>>, vs)
        ELSE IF ~detection.ok THEN Outcome("ValueError", FALSE, <<>>, vs)
        ELSE Outcome("none", TRUE, <<template.shape, detection.shape>>, vs)

\* Network.max_pool(3, 3, 1, 1, name=..., padding=...)
max_pool(x, padding, vs) ==
    LET c == tf_nn_pool(x, KernelSize, padding)
    IN  IF ~validate_padding(padding) THEN Outcome("AssertionError", FALSE, <<>>, vs)
        ELSE IF c.ok
             THEN Outcome("none", FALSE, <<c.shape>>, vs)
             ELSE Outcome("ValueError", FALSE, <<>>, vs)

\* Network.avg_pool(3, 3, 1, 1, name=..., padding=...)
avg_pool(x, padding, vs) ==
    LET c == tf_nn_pool(x, KernelSize, padding)
    IN  IF ~validate_padding(padding) THEN Outcome("AssertionError", FALSE, <<>>, vs)
        ELSE IF c.ok
             THEN Outcome("none", FALSE, <<c.shape>>, vs)
             ELSE Outcome("ValueError", FALSE, <<>>, vs)

\* Network.lrn2
lrn2(x, vs) ==
    LET first == GetItem(x, 0)
        second == GetItem(x, 1)
        template == tf_nn_lrn(first.x)
        detection == tf_nn_lrn(second.x)
    IN  IF first.raised # "none" THEN Outcome(first.raised, FALSE, <<>>, vs)
        ELSE IF ~template.ok THEN Outcome("ValueError", FALSE, <<>>, vs)
        ELSE IF second.raised # "none" THEN Outcome(second.raised, FALSE, <<>>, vs)
        ELSE IF ~detection.ok THEN Outcome("ValueError", FALSE, <<>>, vs)
        ELSE Outcome("none", TRUE, <<template.shape, detection.shape>>, vs)

\* Network.lrn
lrn(x, vs) ==
    LET c == tf_nn_lrn(x)
    IN  IF c.ok
        THEN Outcome("none", FALSE, <<c.shape>>, vs)
        ELSE Outcome("ValueError", FALSE, <<>>, vs)

\* Network.concat(axis, name=...): tf.concat takes no concat_dim.
concat(x, vs) == Outcome("TypeError", FALSE, <<>>, vs)

\* Network.add: tf.add_n of a list of tensors of one shape; of a tensor,
\* its test 'not inputs' raises TypeError.
add(x, vs) ==
    LET c == convert_to_tensor(x)
    IN  IF ~x.list THEN Outcome("TypeError", FALSE, <<>>, vs)
        ELSE IF c.ok THEN Outcome("none", FALSE, <<Tail(c.shape)>>, vs)
        ELSE Outcome("ValueError", FALSE, <<>>, vs)

\* Network.fc(8, name=...)
fc(x, name, vs) ==
    IF x.list THEN Outcome("AttributeError", FALSE, <<>>, vs)
    ELSE LET dim == IF Len(x.shape) = 4 THEN Prod(Tail(x.shape)) ELSE x.shape[Len(x.shape)]
             feed_in == IF Len(x.shape) = 4 THEN <<x.shape[1], dim>> ELSE x.shape
             v == make_vars(<<Suffixed(name, <<"W">>), Suffixed(name, <<"b">>)>>, vs)
         IN  IF v.raised # "none" THEN Outcome(v.raised, FALSE, <<>>, v.variables)
             ELSE IF Len(feed_in) # 2 THEN Outcome("ValueError", FALSE, <<>>, v.variables)
             ELSE Outcome("none", FALSE, <<<<feed_in[1], ChannelsOut>>>>, v.variables)

\* Network.softmax
softmax(x, vs) ==
    LET c == convert_to_tensor(x)
    IN  IF c.ok
        THEN Outcome("none", FALSE, <<c.shape>>, vs)
        ELSE Outcome("ValueError", FALSE, <<>>, vs)

\* Network.batch_normalization(name=...)
batch_normalization(x, name, vs) ==
    IF x.list THEN Outcome("AttributeError", FALSE, <<>>, vs)
    ELSE LET scope == name \o <<"/">>
             v == make_vars(<<scope \o <<"s", "c", "a", "l", "e">>,
                              scope \o <<"o", "f", "f", "s", "e", "t">>,
                              scope \o <<"m", "e", "a", "n">>,
                              scope \o <<"v", "a", "r", "i", "a", "n", "c", "e">> >>, vs)
         IN  IF v.raised # "none" THEN Outcome(v.raised, FALSE, <<>>, v.variables)
             ELSE Outcome("none", FALSE, <<x.shape>>, v.variables)

\* Network.dropout(keep_prob, name=...)
dropout(x, vs) ==
    LET c == convert_to_tensor(x)
    IN  IF c.ok
        THEN Outcome("none", FALSE, <<c.shape>>, vs)
        ELSE Outcome("ValueError", FALSE, <<>>, vs)

\* Network.cf_conv(name=..., padding=...): the detection convolved with the
\* template as its filter; the padding is not verified.
cf_conv(x, padding, vs) ==
    LET template == GetItem(x, 0)
        detection == GetItem(x, 1)
        merge == tf_nn_conv2d(detection.x, template.x, padding)
    IN  IF template.raised # "none" THEN Outcome(template.raised, FALSE, <<>>, vs)
        ELSE IF detection.raised # "none" THEN Outcome(detection.raised, FALSE, <<>>, vs)
        ELSE IF merge.ok
             THEN Outcome("none", FALSE, <<merge.shape>>, vs)
             ELSE Outcome("ValueError", FALSE, <<>>, vs)

\* Network.reshape(rate, name=...)
reshape(x, rate, vs) ==
    IF x.list THEN Outcome("AttributeError", FALSE, <<>>, vs)
    ELSE IF rate \notin {2, 4} THEN Outcome("KeyError", FALSE, <<>>, vs)
    ELSE IF Len(x.shape) < 3 THEN Outcome("IndexError", FALSE, <<>>, vs)
    ELSE LET shape == <<x.shape[2], x.shape[3], 256, IF rate = 2 THEN 10 ELSE 20>>
         IN  IF Prod(x.shape) = Prod(shape)
             THEN Outcome("none", FALSE, <<shape>>, vs)
             ELSE Outcome("ValueError", FALSE, <<>>, vs)

\* Network.reshape2((-1, 8), name=...)
reshape2(x, vs) ==
    LET c == convert_to_tensor(x)
    IN  IF c.ok /\ Prod(c.shape) % ChannelsOut = 0
        THEN Outcome("none", FALSE, << <<Prod(c.shape) \div ChannelsOut, ChannelsOut>> >>, vs)
        ELSE Outcome("ValueError", FALSE, <<>>, vs)

\* op(self, layer_input, *args, **kwargs)
Apply(op, x, padding, name, vs) ==
    CASE op = RELU      -> relu(x, vs)
      [] op = CONV      -> conv(x, padding, name, vs)
      [] op = CONV1     -> conv1(x, padding, name, vs)
      [] op = CONV2     -> conv2(x, padding, name, vs)
      [] op = CONV_3    -> conv_3(x, padding, name, vs)
      [] op = MAX_POOL2 -> max_pool2(x, padding, vs)
      [] op = MAX_POOL  -> max_pool(x, padding, vs)
      [] op = AVG_POOL  -> avg_pool(x, padding, vs)
      [] op = LRN2      -> lrn2(x, vs)
      [] op = LRN       -> lrn(x, vs)
      [] op = CONCAT    -> concat(x, vs)
      [] op = ADD       -> add(x, vs)
      [] op = FC        -> fc(x, name, vs)
      [] op = SOFTMAX   -> softmax(x, vs)
      [] op = BATCH_NORMALIZATION -> batch_normalization(x, name, vs)
      [] op = DROPOUT   -> dropout(x, vs)
      [] op = CF_CONV   -> cf_conv(x, padding, vs)
      [] op = RESHAPE   -> reshape(x, 2, vs)
      [] op = RESHAPE2  -> reshape2(x, vs)

-----------------------------------------------------------------------------
(* The calls on a network.                                                 *)

\* The record of a call: the method, how it ended ("self" when it returned
\* self), and, of a layer operation that returned, the layer's name, whether
\* the network chose it, whether it was new to layers, the input and the
\* output of the operation; the terminals before a layer operation, the
\* layer fed last (NoLayer when none is: by no call yet, or by a feed whose
\* first argument named no layer), and the arguments of a feed.
Called(call, result, name, auto, fresh, input, output, before, current, args) ==
    [call |-> call, result |-> result, name |-> name, auto |-> auto, fresh |-> fresh,
     input |-> input, output |-> output, before |-> before, current |-> current,
     args |-> args]

\* self.feed(*args), with for arguments: none, the template, the template
\* and the detection, a name that is no layer alone and after the template,
\* and the tensor created last, alone and after the template.
Feed ==
    /\ last.call # "none"
    /\ \E args \in {<<>>,
                     <<NameArg(TEMPLATE)>>,
                     <<NameArg(TEMPLATE), NameArg(DETECTION)>>,
                     <<NameArg(MISSING)>>,
                     <<NameArg(TEMPLATE), NameArg(MISSING)>>,
                     <<LayerArg(TensorOf(made))>>,
                     <<NameArg(TEMPLATE), LayerArg(TensorOf(made))>>} :
          LET r == feed(terminals, layers, args)
              known == {i \in DOMAIN args : \A j \in 1..i : ~Unknown(layers, args[j])}
              fed == IF known = {} THEN NoLayer
                     ELSE Resolved(layers, args[Cardinality(known)])
          IN  /\ terminals' = r.terminals
              /\ last' = Called("feed", r.result, <<>>, FALSE, FALSE, NoLayer,
                                IF r.result = "self" THEN fed ELSE NoLayer, <<>>,
                                IF r.result = "AssertionError" THEN last.current ELSE fed,
                                args)
    /\ UNCHANGED <<layers, made, graph, calls>>
    /\ UNCHANGED lossVars

\* self.<op>(..., name=..., padding=...), a method decorated with @layer; named
\* is the set of names passed, empty when the name is left to the network.
LayerOp(op, named, padding) ==
    /\ last.call # "none"
    /\ calls < MaxLayerOps
    /\ LET name == IF named = {} THEN get_unique_name(layers, op) ELSE CHOOSE n \in named : TRUE
           out == IF Len(terminals) = 0
                  THEN Outcome("RuntimeError", FALSE, <<>>, graph.variables)
                  ELSE Apply(op, ShapeOf(layer_input(terminals), graph), padding, name,
                             graph.variables)
           layer_output == IF out.list
                           THEN ListOf(<<TensorOf(made + 1), TensorOf(made + 2)>>)
                           ELSE TensorOf(made + 1)
           added == [n \in DOMAIN layers \cup {name} |->
                        IF n = name THEN layer_output ELSE layers[n]]
       IN  IF out.raised # "none"
           THEN /\ last' = Called("layer", out.raised, <<>>, FALSE, FALSE,
                                  NoLayer, NoLayer, terminals, last.current, <<>>)
                /\ graph' = [graph EXCEPT !.variables = out.variables]
                /\ UNCHANGED <<terminals, layers, made>>
           ELSE /\ layers' = added
                /\ terminals' = feed(terminals, added, <<LayerArg(layer_output)>>).terminals
                /\ made' = made + Len(out.shapes)
                /\ graph' = [shape |-> graph.shape \o out.shapes,
                             variables |-> out.variables]
                /\ last' = Called("layer", "self", name, named = {}, name \notin DOMAIN layers,
                                  layer_input(terminals), layer_output, terminals,
                                  layer_output, <<>>)
    /\ calls' = calls + 1
    /\ UNCHANGED lossVars

\* self.make_var(name, shape), called from outside the layer operations.
MakeVar(name) ==
    /\ last.call # "none"
    /\ calls < MaxLayerOps
    /\ LET v == make_var(name, graph.variables)
       IN  /\ graph' = [graph EXCEPT !.variables = v.variables]
           /\ last' = Called("make_var", IF v.raised = "none" THEN "variable" ELSE v.raised,
                             <<>>, FALSE, FALSE, NoLayer, NoLayer, <<>>, last.current, <<>>)
    /\ calls' = calls + 1
    /\ UNCHANGED <<terminals, layers, made>>
    /\ UNCHANGED lossVars

\* Network.__init__: no terminals, and the inputs as the first layers.
InitNet ==
    /\ terminals = <<>>
    /\ layers = [n \in {TEMPLATE, DETECTION} |-> IF n = TEMPLATE THEN TensorOf(1) ELSE TensorOf(2)]
    /\ made = 2
    /\ graph = [shape |-> <<TemplateShape, DetectionShape>>, variables |-> {}]
    /\ calls = 0
    /\ last = Called("init", "self", <<>>, FALSE, FALSE, NoLayer, NoLayer, <<>>, NoLayer, <<>>)
    /\ gt = <<>>
    /\ anchors = <<>>
    /\ pre_score = Failed
    /\ pre_box = Failed
    /\ matcher = Returned(Failed, Failed, Failed, Failed)
    /\ device = "cpu"
    /\ pc = "start"
    /\ status = "none"
    /\ cls_loss = NoMean
    /\ reg_loss = 0
    /\ label = Failed
    /\ target_box = Failed

\* A call of feed, of a layer operation or of make_var.  relu and conv are
\* called with and without a name; the operations that take a padding are
\* called with it; make_var is called with 'w' and 'conv_1/conv_1_W'.
NextNet ==
    \/ Feed
    \/ \E op \in Ops :
          \E named \in {{}} \cup (IF op \in {RELU, CONV} THEN {{n} : n \in ExplicitNames} ELSE {}),
             padding \in IF op = CONV THEN Paddings
                         ELSE IF op \in {CONV1, CONV2, CONV_3, MAX_POOL2, MAX_POOL, AVG_POOL,
                                         CF_CONV}
                         THEN Paddings \ {"VALID"} ELSE {"SAME"} :
              LayerOp(op, named, padding)
    \/ \E name \in {<<"w">>, Suffixed(CONV \o <<"_", "1">>, <<"W">>)} : MakeVar(name)

SpecNet == InitNet /\ [][NextNet]_vars

-----------------------------------------------------------------------------
(* Properties of the chaining state.                                       *)

\* The parts (a) to (d) of C9: a layer operation that returned self got the
\* single terminal, or the list of the terminals when they were not one,
\* recorded its output in layers under its name and left it as the only
\* terminal.
LayerOpChained ==
    (last.call = "layer" /\ last.result = "self") =>
        /\ Len(last.before) = 1 => last.input = last.before[1]
        /\ Len(last.before) # 1 => last.input = ListOf(last.before)
        /\ last.name \in DOMAIN layers
        /\ layers[last.name] = last.output
        /\ terminals = <<last.output>>

\* C9 as claimed: (a) to (d), and once a layer operation has executed,
\* get_output always returns: the output of the layer operation executed
\* last, or the last layer of a feed after it.
C9_GetOutputAlwaysReturns ==
    /\ LayerOpChained
    /\ made > Cardinality({TEMPLATE, DETECTION}) =>
          /\ Len(terminals) > 0
          /\ last.current # NoLayer => get_output = last.current

\* C9, amended: (a) to (d); get_output returns the output of the layer
\* operation that returned last, or the last layer of a feed that returned
\* after it; after a feed that raised KeyError it returns the last argument
\* resolved before the name that is no layer, and when that name came first
\* the terminals are empty and get_output raises IndexError, as before the
\* first feed; a call that raises otherwise changes nothing of this.
C9_LayerChaining ==
    /\ LayerOpChained
    /\ last.current # NoLayer => (Len(terminals) > 0 /\ get_output = last.current)
    /\ last.current = NoLayer => terminals = <<>>
    /\ (last.call = "layer" /\ last.result = "self") => last.current = last.output
    /\ (last.call = "feed" /\ last.result = "self") =>
          get_output = Resolved(layers, last.args[Len(last.args)])
    /\ (last.call = "feed" /\ last.result = "KeyError") =>
          LET first == CHOOSE j \in DOMAIN last.args :
                           /\ Unknown(layers, last.args[j])
                           /\ \A k \in 1..(j - 1) : ~Unknown(layers, last.args[k])
          IN  IF first = 1 THEN terminals = <<>>
              ELSE get_output = Resolved(layers, last.args[first - 1])

\* A layer operation that was given the list of two terminals, after an
\* earlier layer operation.
C9_Witness ==
    /\ last.call = "layer"
    /\ last.result = "self"
    /\ last.input.list
    /\ Len(last.before) = 2
    /\ last.output = TensorOf(4)
    /\ get_output = TensorOf(4)

\* C10: get_unique_name(prefix) is no key of layers, for the name of every
\* layer operation, in every state of the network.
C10_UniqueNameIsNew ==
    last.call # "none" => \A op \in Ops : get_unique_name(layers, op) \notin DOMAIN layers

\* C11: a feed with a name that is no key of layers raises KeyError and
\* leaves as terminals the arguments resolved before that name, the previous
\* terminals gone; a layer operation called with no terminals raises
\* RuntimeError, calls no operation and leaves layers and terminals unchanged.
C11_ErrorPaths ==
    [][/\ (last'.call = "feed" /\ \E i \in DOMAIN last'.args : Unknown(layers, last'.args[i])) =>
              LET first == CHOOSE j \in DOMAIN last'.args :
                               /\ Unknown(layers, last'.args[j])
                               /\ \A k \in 1..(j - 1) : ~Unknown(layers, last'.args[k])
              IN  /\ last'.result = "KeyError"
                  /\ terminals' = [k \in 1..(first - 1) |-> Resolved(layers, last'.args[k])]
                  /\ layers' = layers
       /\ (last'.call = "feed" /\ last'.result = "KeyError") =>
              \E i \in DOMAIN last'.args : Unknown(layers, last'.args[i])
       /\ (last'.call = "layer" /\ terminals = <<>>) =>
              /\ last'.result = "RuntimeError"
              /\ made' = made
              /\ graph' = graph
              /\ layers' = layers
              /\ terminals' = terminals]_vars

\* A feed that raised KeyError at its second argument, after a layer
\* operation left another terminal: the first argument is the only terminal.
C11_Witness ==
    /\ last.call = "feed"
    /\ last.result = "KeyError"
    /\ Len(last.args) = 2
    /\ ~Unknown(layers, last.args[1])
    /\ terminals = <<Resolved(layers, last.args[1])>>
    /\ made > Cardinality({TEMPLATE, DETECTION})

====
